---- MODULE Spec2Model ----
(***************************************************************************)
(* nice-vite-symlink-watcher: the change-to-reload pipeline of             *)
(* src/src/services.ts (ownership resolution, keyed debouncing, module     *)
(* invalidation, full-reload notification) as a state machine.             *)
(*                                                                         *)
(* Strings are sequences of one-character strings, so that startsWith,     *)
(* includes and path.join are computed and not assumed.                    *)
(***************************************************************************)
EXTENDS Integers, Sequences, FiniteSets, TLC

VARIABLES
  packages,        \* options.packages: ordered <<[name, path], ...>> (Object.entries order)
  watchDir,        \* options.watchDir
  verbose,         \* options.verbose
  input,           \* arguments of the last direct call of an exported pure function
  output,          \* what that call returned
  urlToModuleMap,  \* server.moduleGraph.urlToModuleMap, in iteration order
  now,             \* the clock, in ticks
  timers,          \* createKeyedDebouncer: timers map, key -> timer handle
  counts,          \* createKeyedDebouncer: counts map, key -> number
  armed,           \* the runtime's live timeouts: armed, not cleared, not yet run
  nextHandle,      \* the handle the next setTimeout returns
  fsDirs,          \* the directories that exist on disk (existsSync)
  fsFiles,         \* the regular files that exist on disk (existsSync)
  addThrows,       \* the paths server.watcher.add throws for
  threw,           \* an exception has left configureServer
  closed,          \* the host has closed the server
  peer,            \* a second server given to configureServer of the same plugin
  watched,         \* the paths given to server.watcher.add
  watching,        \* configureServer has run: the change listener is subscribed
  trace            \* what has happened so far, in order (history)

vars == <<packages, watchDir, verbose, input, output, urlToModuleMap, now,
          timers, counts, armed, nextHandle, fsDirs,
                 fsFiles, addThrows, threw, closed, peer, watched, watching, trace>>

----------------------------------------------------------------------------
(* Bounds of the model *)

\* longest changed-file path drawn for a direct getPackageForPath call
MaxPathLen == 6
\* longest package root drawn for a direct getPackageForPath call
MaxRootLen == 2
\* most entries of the module graph drawn for a direct
\* invalidatePackageModules call
MaxModules == 2
\* most characters of the urls of that module graph, taken together
MaxUrlChars == 2
\* most characters of the file paths of that module graph, taken together
MaxFileChars == 1
\* longest package name drawn for that call
MaxNameLen == 1
\* longest package root drawn for that call
MaxRootChars == 1
\* the debounce delay of the session, in ticks (options.debounce)
debounce == 2
\* the clock stops here
MaxTime == 4
\* most change events delivered in a session
MaxChanges == 3
\* getSourceAliases: the most names in aliasablePackages
MaxAliasable == 2

----------------------------------------------------------------------------
(* Strings *)

Sep == "/"

PathChars == {Sep, "a", "d"}
NameChars == {"a", "b"}

\* all strings over an alphabet, up to a length
Strs(chars, n) == UNION {[1..k -> chars] : k \in 0..n}

\* String.prototype.startsWith
startsWith(s, prefix) ==
  /\ Len(prefix) <= Len(s)
  /\ SubSeq(s, 1, Len(prefix)) = prefix

\* String.prototype.includes
includes(s, sub) ==
  \E i \in 0..(Len(s) - Len(sub)) : SubSeq(s, i + 1, i + Len(sub)) = sub

\* path.normalize (posix) on strings without "." segments: empty segments
\* are dropped, a leading and a trailing separator are kept
RECURSIVE normalize(_)
normalize(p) ==
  IF Len(p) <= 1 THEN p
  ELSE IF p[1] = Sep /\ p[2] = Sep THEN normalize(Tail(p))
  ELSE <<p[1]>> \o normalize(Tail(p))

\* path.join (posix) of two segments: the non-empty ones joined by the
\* separator, then normalized
join(a, b) ==
  normalize(IF a = <<>> THEN b ELSE IF b = <<>> THEN a ELSE a \o <<Sep>> \o b)

----------------------------------------------------------------------------
(* services.ts: getPackageForPath *)

undefined == {}

\* a loop that keeps looking after a match and so returns the last one
RECURSIVE lastMatch(_, _, _, _)
lastMatch(fp, pkgs, wd, i) ==
  IF i > Len(pkgs) THEN 0
  ELSE LET later == lastMatch(fp, pkgs, wd, i + 1)
       IN  IF later # 0 THEN later
           ELSE IF startsWith(fp, join(pkgs[i].path, wd)) THEN i ELSE 0

\* the index of the first registry entry whose watch target is a string
\* prefix of filePath, 0 when there is none (the for..of loop)
RECURSIVE firstMatch(_, _, _, _)
firstMatch(fp, pkgs, wd, i) ==
  IF i > Len(pkgs) THEN 0
  ELSE IF startsWith(fp, join(pkgs[i].path, wd)) THEN i
  ELSE firstMatch(fp, pkgs, wd, i + 1)

getPackageForPath(fp, pkgs, wd) ==
  LET i == firstMatch(fp, pkgs, wd, 1)
  IN  IF i = 0 THEN undefined ELSE {[name |-> pkgs[i].name, path |-> pkgs[i].path]}

----------------------------------------------------------------------------
(* services.ts: getSourceAliases *)

\* the non-empty segments, joined by the separator
RECURSIVE joined(_)
joined(parts) ==
  IF parts = <<>> THEN <<>>
  ELSE LET rest == joined(Tail(parts))
       IN  IF Head(parts) = <<>> THEN rest
           ELSE IF rest = <<>> THEN Head(parts)
           ELSE Head(parts) \o <<Sep>> \o rest

\* path.join (posix) of any number of segments
joinAll(parts) == normalize(joined(parts))

src == <<"s", "r", "c">>

\* the default of the entryPoint parameter, "index.ts"
DefaultEntryPoint == <<"i", "n", "d", "e", "x", ".", "t", "s">>

\* packages[pkgName]: the root of the entry of that name, if there is one
lookup(pkgs, pkgName) ==
  {pkgs[i].path : i \in {j \in DOMAIN pkgs : pkgs[j].name = pkgName}}

\* if (pkgPath): neither undefined nor the empty string
truthy(pkgPath) == pkgPath # undefined /\ pkgPath # {<<>>}

\* aliases[pkgName] = value
setProperty(obj, key, value) ==
  [k \in DOMAIN obj \cup {key} |-> IF k = key THEN value ELSE obj[k]]

\* a loop over the registry in place of the list of aliasable names
RECURSIVE aliasesOfAllFrom(_, _, _, _)
aliasesOfAllFrom(pkgs, entryPoint, i, aliases) ==
  IF i > Len(pkgs) THEN aliases
  ELSE aliasesOfAllFrom(pkgs, entryPoint, i + 1,
         IF pkgs[i].path # <<>>
         THEN setProperty(aliases, pkgs[i].name, joinAll(<<pkgs[i].path, src, entryPoint>>))
         ELSE aliases)

getSourceAliasesOfAll(pkgs, aliasablePackages, entryPoint) ==
  aliasesOfAllFrom(pkgs, IF entryPoint = undefined THEN DefaultEntryPoint
                         ELSE CHOOSE e \in entryPoint : TRUE, 1, <<>>)

\* the for..of loop over aliasablePackages from entry i on
RECURSIVE aliasesFrom(_, _, _, _, _)
aliasesFrom(pkgs, aliasablePackages, entryPoint, i, aliases) ==
  IF i > Len(aliasablePackages) THEN aliases
  ELSE LET pkgName == aliasablePackages[i]
           pkgPath == lookup(pkgs, pkgName)
       IN  aliasesFrom(pkgs, aliasablePackages, entryPoint, i + 1,
             IF truthy(pkgPath)
             THEN setProperty(aliases, pkgName,
                         joinAll(<<CHOOSE r \in pkgPath : TRUE, src, entryPoint>>))
             ELSE aliases)

\* getSourceAliases(packages, aliasablePackages, entryPoint = "index.ts"),
\* entryPoint being undefined or one string
getSourceAliases(pkgs, aliasablePackages, entryPoint) ==
  aliasesFrom(pkgs, aliasablePackages,
              IF entryPoint = undefined THEN DefaultEntryPoint
              ELSE CHOOSE e \in entryPoint : TRUE, 1, <<>>)

----------------------------------------------------------------------------
(* services.ts: invalidatePackageModules *)

\* A module graph entry is [url, file, invalidated]: file is {} for a module
\* without a file (mod.file is null) and {f} otherwise; invalidated counts
\* the moduleGraph.invalidateModule calls made on the module.  Every url of
\* the map has a module, so the guard "mod &&" of the source always passes.

\* the condition with && in the place of ||
affectedBoth(mod, pkgName, pkgPath) ==
  /\ includes(mod.url, pkgName)
  /\ \E f \in mod.file : includes(f, pkgPath)

\* the condition of the if statement
affected(mod, pkgName, pkgPath) ==
  \/ includes(mod.url, pkgName)
  \/ \E f \in mod.file : includes(f, pkgPath)

\* moduleGraph.invalidateModule(mod)
invalidateModule(mod) == [mod EXCEPT !.invalidated = @ + 1]

\* the for..of loop from entry i on, count being the running count
RECURSIVE invalidateFrom(_, _, _, _, _)
invalidateFrom(map, pkgName, pkgPath, i, count) ==
  IF i > Len(map) THEN [map |-> map, count |-> count]
  ELSE IF affected(map[i], pkgName, pkgPath)
       THEN invalidateFrom([map EXCEPT ![i] = invalidateModule(map[i])],
                           pkgName, pkgPath, i + 1, count + 1)
       ELSE invalidateFrom(map, pkgName, pkgPath, i + 1, count)

\* returns the module graph after the pass and the returned count
invalidatePackageModules(map, pkgName, pkgPath) ==
  invalidateFrom(map, pkgName, pkgPath, 1, 0)

\* the for..of loop from entry i on when moduleGraph.invalidateModule throws
\* for entry k: the affected entries before k have been invalidated
RECURSIVE invalidateBefore(_, _, _, _, _)
invalidateBefore(map, pkgName, pkgPath, i, k) ==
  IF i >= k THEN map
  ELSE invalidateBefore(IF affected(map[i], pkgName, pkgPath)
                        THEN [map EXCEPT ![i] = invalidateModule(map[i])]
                        ELSE map,
                        pkgName, pkgPath, i + 1, k)

----------------------------------------------------------------------------
(* History: what the pipeline did, in order.  ev is one of "change" (the  *)
(* watcher delivered a change event for path), "call" (debouncer.call for *)
(* key), "fire" (a timer callback ran fn(n) for key), "invalidate"        *)
(* (invalidatePackageModules(key, path) returned n), "log" (a console.log *)
(* line; n files, m modules), "send" (server.ws.send full-reload).  In a   *)
(* "call" m is the id of the closure passed, in a "fire" the id of the     *)
(* closure that was run.  "throw" is an exception leaving the closure of   *)
(* key, raised by invalidateModule for entry n of the graph.               *)

NoKey == <<>>
NoPath == <<>>

\* one record of the history: what happened, on which server, when
EvAt(server, type, key, path, n, m) ==
  [ev |-> type, srv |-> server, key |-> key, path |-> path, n |-> n, m |-> m, at |-> now]

Ev(type, key, path, n, m) == EvAt(1, type, key, path, n, m)

----------------------------------------------------------------------------
(* services.ts: createKeyedDebouncer *)

\* Map.prototype.delete
mapDelete(map, key) == [k \in DOMAIN map \ {key} |-> map[k]]

\* Map.prototype.set
mapSet(map, key, value) == [k \in DOMAIN map \cup {key} |-> IF k = key THEN value ELSE map[k]]

\* call that arms the new timeout with the callback of the one it clears
callFirstFn(key, fn) ==
  LET existing == {t \in armed : key \in DOMAIN timers /\ t.handle = timers[key]}
      kept == IF existing = {} THEN fn ELSE (CHOOSE t \in existing : TRUE).fn
      timer == [handle |-> nextHandle, key |-> key, due |-> now + debounce, fn |-> kept]
  IN  /\ counts' = mapSet(counts, key, (IF key \in DOMAIN counts THEN counts[key] ELSE 0) + 1)
      /\ armed' = (armed \ existing) \cup {timer}
      /\ nextHandle' = nextHandle + 1
      /\ timers' = mapSet(timers, key, timer.handle)

\* call that clears a pending timeout and arms none in its place
callClearOnly(key, fn) ==
  LET existing == IF key \in DOMAIN timers THEN {timers[key]} ELSE {}
      timer == [handle |-> nextHandle, key |-> key, due |-> now + debounce, fn |-> fn]
  IN  /\ counts' = mapSet(counts, key, (IF key \in DOMAIN counts THEN counts[key] ELSE 0) + 1)
      /\ armed' = IF existing = {} THEN armed \cup {timer}
                  ELSE {t \in armed : t.handle \notin existing}
      /\ nextHandle' = nextHandle + 1
      /\ timers' = IF existing = {} THEN mapSet(timers, key, timer.handle)
                   ELSE mapDelete(timers, key)

\* call with the count set to 1 and not added to
callCountReset(key, fn) ==
  LET existing == IF key \in DOMAIN timers THEN {timers[key]} ELSE {}
      timer == [handle |-> nextHandle, key |-> key, due |-> now + debounce, fn |-> fn]
  IN  /\ counts' = mapSet(counts, key, 1)
      /\ armed' = {t \in armed : t.handle \notin existing} \cup {timer}
      /\ nextHandle' = nextHandle + 1
      /\ timers' = mapSet(timers, key, timer.handle)

\* call without clearTimeout
callNoClear(key, fn) ==
  LET timer == [handle |-> nextHandle, key |-> key, due |-> now + debounce, fn |-> fn]
  IN  /\ counts' = mapSet(counts, key, (IF key \in DOMAIN counts THEN counts[key] ELSE 0) + 1)
      /\ armed' = armed \cup {timer}
      /\ nextHandle' = nextHandle + 1
      /\ timers' = mapSet(timers, key, timer.handle)

\* call that leaves a timer the key already has as it is, and arms one
\* only when the key has none
callKeepTimer(key, fn) ==
  LET timer == [handle |-> nextHandle, key |-> key, due |-> now + debounce, fn |-> fn]
  IN  /\ counts' = mapSet(counts, key, (IF key \in DOMAIN counts THEN counts[key] ELSE 0) + 1)
      /\ armed' = IF key \in DOMAIN timers THEN armed ELSE armed \cup {timer}
      /\ nextHandle' = nextHandle + 1
      /\ timers' = IF key \in DOMAIN timers THEN timers ELSE mapSet(timers, key, timer.handle)

\* call with one timer for all keys: whatever is armed is cleared
callOneTimer(key, fn) ==
  LET timer == [handle |-> nextHandle, key |-> key, due |-> now + debounce, fn |-> fn]
  IN  /\ counts' = mapSet(counts, key, (IF key \in DOMAIN counts THEN counts[key] ELSE 0) + 1)
      /\ armed' = {timer}
      /\ nextHandle' = nextHandle + 1
      /\ timers' = mapSet(timers, key, timer.handle)

\* debouncer.call(key, fn): count the call, clear the key's timeout if it
\* has one, arm a new one that is due after the delay
call(key, fn) ==
  LET existing == IF key \in DOMAIN timers THEN {timers[key]} ELSE {}
      timer == [handle |-> nextHandle, key |-> key, due |-> now + debounce, fn |-> fn]
  IN  /\ counts' = mapSet(counts, key, (IF key \in DOMAIN counts THEN counts[key] ELSE 0) + 1)
      /\ armed' = {t \in armed : t.handle \notin existing} \cup {timer}
      /\ nextHandle' = nextHandle + 1
      /\ timers' = mapSet(timers, key, timer.handle)

\* onFire that sends the full-reload only when a module was invalidated
onFireSkipEmpty(pkg, fileCount, sofar) ==
  LET graph == IF pkg.server = 1 THEN urlToModuleMap ELSE peer.urlToModuleMap
      r == invalidatePackageModules(graph, pkg.name, pkg.path)
  IN  /\ urlToModuleMap' = (IF pkg.server = 1 THEN r.map ELSE urlToModuleMap)
      /\ peer' = (IF pkg.server = 1 THEN peer ELSE [peer EXCEPT !.urlToModuleMap = r.map])
      /\ trace' = sofar
                  \o <<EvAt(pkg.server, "invalidate", pkg.name, pkg.path, r.count, 0)>>
                  \o (IF verbose
                      THEN <<EvAt(pkg.server, "log", pkg.name, NoPath, fileCount, r.count)>>
                      ELSE <<>>)
                  \o (IF r.count > 0
                      THEN <<EvAt(pkg.server, "send", NoKey, NoPath, 0, 0)>>
                      ELSE <<>>)

\* the closure given to debouncer.call by the change listener, run with
\* fileCount: pkg holds what it captured (the package and the server of
\* the listener); sofar is the history up to the call
onFire(pkg, fileCount, sofar) ==
  LET graph == IF pkg.server = 1 THEN urlToModuleMap ELSE peer.urlToModuleMap
      r == invalidatePackageModules(graph, pkg.name, pkg.path)
  IN  /\ urlToModuleMap' = (IF pkg.server = 1 THEN r.map ELSE urlToModuleMap)
      /\ peer' = (IF pkg.server = 1 THEN peer ELSE [peer EXCEPT !.urlToModuleMap = r.map])
      /\ trace' = sofar
                  \o <<EvAt(pkg.server, "invalidate", pkg.name, pkg.path, r.count, 0)>>
                  \o (IF verbose
                      THEN <<EvAt(pkg.server, "log", pkg.name, NoPath, fileCount, r.count)>>
                      ELSE <<>>)
                  \o <<EvAt(pkg.server, "send", NoKey, NoPath, 0, 0)>>

\* a callback that reads the count after deleting it
timerCallbackLateRead(t) ==
  /\ timers' = mapDelete(timers, t.key)
  /\ counts' = mapDelete(counts, t.key)
  /\ onFire(t.fn, 1, Append(trace, EvAt(t.fn.server, "fire", t.key, NoPath, 1, t.fn.id)))

\* a callback that leaves the key's count in the map
timerCallbackKeepCount(t) ==
  LET count == IF t.key \in DOMAIN counts /\ counts[t.key] # 0 THEN counts[t.key] ELSE 1
  IN  /\ timers' = mapDelete(timers, t.key)
      /\ counts' = counts
      /\ onFire(t.fn, count, Append(trace, EvAt(t.fn.server, "fire", t.key, NoPath, count, t.fn.id)))

\* a callback that leaves the key's timer handle in the map
timerCallbackKeepHandle(t) ==
  LET count == IF t.key \in DOMAIN counts /\ counts[t.key] # 0 THEN counts[t.key] ELSE 1
  IN  /\ timers' = timers
      /\ counts' = mapDelete(counts, t.key)
      /\ onFire(t.fn, count, Append(trace, EvAt(t.fn.server, "fire", t.key, NoPath, count, t.fn.id)))

\* the closure when moduleGraph.invalidateModule throws for entry k of the
\* graph: the exception leaves it before the log and the send
onFireThrows(pkg, fileCount, sofar, k) ==
  LET graph == IF pkg.server = 1 THEN urlToModuleMap ELSE peer.urlToModuleMap
      left == invalidateBefore(graph, pkg.name, pkg.path, 1, k)
  IN  /\ k \in DOMAIN graph
      /\ affected(graph[k], pkg.name, pkg.path)
      /\ urlToModuleMap' = (IF pkg.server = 1 THEN left ELSE urlToModuleMap)
      /\ peer' = (IF pkg.server = 1 THEN peer ELSE [peer EXCEPT !.urlToModuleMap = left])
      /\ trace' = Append(sofar, EvAt(pkg.server, "throw", pkg.name, pkg.path, k, 0))

\* a callback that deletes the key's handle and count after fn has returned,
\* and so not at all when fn throws
timerCallbackThrowsLate(t, k) ==
  LET count == IF t.key \in DOMAIN counts /\ counts[t.key] # 0 THEN counts[t.key] ELSE 1
  IN  /\ timers' = timers
      /\ counts' = counts
      /\ onFireThrows(t.fn, count,
                      Append(trace, EvAt(t.fn.server, "fire", t.key, NoPath, count, t.fn.id)), k)

\* the callback given to setTimeout, run for the armed timeout t, when fn
\* throws: the exception leaves the callback, uncaught
timerCallbackThrows(t, k) ==
  LET count == IF t.key \in DOMAIN counts /\ counts[t.key] # 0 THEN counts[t.key] ELSE 1
  IN  /\ timers' = mapDelete(timers, t.key)
      /\ counts' = mapDelete(counts, t.key)
      /\ onFireThrows(t.fn, count,
                      Append(trace, EvAt(t.fn.server, "fire", t.key, NoPath, count, t.fn.id)), k)

\* the callback given to setTimeout, run for the armed timeout t
timerCallback(t) ==
  LET count == IF t.key \in DOMAIN counts /\ counts[t.key] # 0 THEN counts[t.key] ELSE 1
  IN  /\ timers' = mapDelete(timers, t.key)
      /\ counts' = mapDelete(counts, t.key)
      /\ onFire(t.fn, count, Append(trace, EvAt(t.fn.server, "fire", t.key, NoPath, count, t.fn.id)))

----------------------------------------------------------------------------
(* services.ts: symlinkWatcher *)

\* fs.existsSync: a directory, with or without a trailing separator, or
\* a regular file
bare(path) ==
  IF Len(path) > 1 /\ path[Len(path)] = Sep THEN SubSeq(path, 1, Len(path) - 1) ELSE path

existsSync(path) == bare(path) \in fsDirs \/ path \in fsFiles

\* a loop that adds every target, on disk or not
RECURSIVE addAllFrom(_, _, _, _)
addAllFrom(pkgs, wd, i, added) ==
  IF i > Len(pkgs) THEN [watched |-> added, threw |-> FALSE]
  ELSE LET targetPath == join(pkgs[i].path, wd)
       IN  IF targetPath \in addThrows
           THEN [watched |-> added, threw |-> TRUE]
           ELSE addAllFrom(pkgs, wd, i + 1, added \cup {targetPath})

\* a loop that catches what server.watcher.add throws and goes on
RECURSIVE addCaughtFrom(_, _, _, _)
addCaughtFrom(pkgs, wd, i, added) ==
  IF i > Len(pkgs) THEN [watched |-> added, threw |-> FALSE]
  ELSE LET targetPath == join(pkgs[i].path, wd)
       IN  IF existsSync(targetPath) /\ targetPath \notin addThrows
           THEN addCaughtFrom(pkgs, wd, i + 1, added \cup {targetPath})
           ELSE addCaughtFrom(pkgs, wd, i + 1, added)

\* the for..of loop of registerWatchers from entry i on: the paths given to
\* server.watcher.add so far, and whether an add threw (which ends the loop)
RECURSIVE addFrom(_, _, _, _)
addFrom(pkgs, wd, i, added) ==
  IF i > Len(pkgs) THEN [watched |-> added, threw |-> FALSE]
  ELSE LET targetPath == join(pkgs[i].path, wd)
       IN  IF existsSync(targetPath)
           THEN IF targetPath \in addThrows
                THEN [watched |-> added, threw |-> TRUE]
                ELSE addFrom(pkgs, wd, i + 1, added \cup {targetPath})
           ELSE addFrom(pkgs, wd, i + 1, added)

registerWatchersAll(added, pkgs, wd) == addAllFrom(pkgs, wd, 1, added)

registerWatchersCaught(added, pkgs, wd) == addCaughtFrom(pkgs, wd, 1, added)

\* registerWatchers(server, packages, watchDir), added being what the
\* server's watcher was given before
registerWatchers(added, pkgs, wd) == addFrom(pkgs, wd, 1, added)

\* configureServer(server) for the first server: an exception of
\* registerWatchers leaves it before the log and the subscription
ConfigureServer ==
  /\ ~watching
  /\ ~threw
  /\ ~closed
  /\ LET r == registerWatchers(watched, packages, watchDir)
     IN  /\ watched' = r.watched
         /\ threw' = r.threw
         /\ watching' = ~r.threw
         /\ trace' = IF verbose /\ ~r.threw
                     THEN Append(trace, Ev("log", NoKey, NoPath, 0, 0))
                     ELSE trace
  /\ UNCHANGED <<packages, watchDir, verbose, input, output, urlToModuleMap, now,
                 timers, counts, armed, nextHandle, fsDirs, fsFiles, addThrows,
                 closed, peer>>

\* configureServer(server) for the second server, on the same plugin object
ConfigurePeer ==
  /\ ~peer.watching
  /\ ~peer.threw
  /\ LET r == registerWatchers(peer.watched, packages, watchDir)
     IN  /\ peer' = [peer EXCEPT !.watched = r.watched, !.threw = r.threw,
                                 !.watching = ~r.threw]
         /\ trace' = IF verbose /\ ~r.threw
                     THEN Append(trace, EvAt(2, "log", NoKey, NoPath, 0, 0))
                     ELSE trace
  /\ UNCHANGED <<packages, watchDir, verbose, input, output, urlToModuleMap, now,
                 timers, counts, armed, nextHandle, fsDirs, fsFiles, addThrows,
                 threw, closed, watched, watching>>

\* what the closure given to debouncer.call captures; every event makes a
\* new function object, told apart from the others by id
closure(server, pkg, id) ==
  [name |-> pkg.name, path |-> pkg.path, server |-> server, id |-> id]

\* the listener with the send outside the ownership test: an unowned
\* path reloads at once
onChangeNoGuard(server, filePath) ==
  LET pkg == getPackageForPath(filePath, packages, watchDir)
      seen == Append(trace, EvAt(server, "change", NoKey, filePath, 0, 0))
  IN  IF pkg = undefined
      THEN /\ trace' = Append(seen, EvAt(server, "send", NoKey, NoPath, 0, 0))
           /\ UNCHANGED <<timers, counts, armed, nextHandle>>
      ELSE \E p \in pkg :
             /\ call(p.name, closure(server, p, nextHandle))
             /\ trace' = Append(seen, EvAt(server, "call", p.name, NoPath, 0, nextHandle))

\* the listener of server.watcher.on("change", ...) of a server
onChange(server, filePath) ==
  LET pkg == getPackageForPath(filePath, packages, watchDir)
      seen == Append(trace, EvAt(server, "change", NoKey, filePath, 0, 0))
  IN  IF pkg = undefined
      THEN /\ trace' = seen
           /\ UNCHANGED <<timers, counts, armed, nextHandle>>
      ELSE \E p \in pkg :
             /\ call(p.name, closure(server, p, nextHandle))
             /\ trace' = Append(seen, EvAt(server, "call", p.name, NoPath, 0, nextHandle))

NumChanges == Cardinality({i \in DOMAIN trace : trace[i].ev = "change"})

\* the paths the watcher reports changes of
ChangedPaths ==
  { <<"/", "a", "/", "d", "/", "m">>,      \* in the watch target of package a
    <<"/", "b", "/", "d", "/", "m">>,      \* in the watch target of package b
    <<"/", "a", "/", "s", "/", "m">>,      \* in the root of a, not in its watch target
    <<"/", "a", "/", "d", "d", "/", "m">>  \* in a sibling of the watch target of a
  }

\* the watcher delivers a change event
Change ==
  /\ watching
  /\ ~closed
  /\ NumChanges < MaxChanges
  /\ \E filePath \in ChangedPaths : onChange(1, filePath)
  /\ UNCHANGED <<packages, watchDir, verbose, input, output, urlToModuleMap, now,
                 fsDirs,
                 fsFiles, addThrows, threw, closed, peer, watched, watching>>

\* the paths the watcher of the second server reports changes of
PeerChangedPaths ==
  { <<"/", "a", "/", "d", "/", "m">>,      \* in the watch target of package a
    <<"/", "a", "/", "s", "/", "m">>       \* in the root of a, not in its watch target
  }

\* the watcher of the second server delivers a change event
ChangePeer ==
  /\ peer.watching
  /\ NumChanges < MaxChanges
  /\ \E filePath \in PeerChangedPaths : onChange(2, filePath)
  /\ UNCHANGED <<packages, watchDir, verbose, input, output, urlToModuleMap, now,
                 fsDirs, fsFiles, addThrows, threw, closed, peer, watched, watching>>

\* the host closes the first server and its watcher; the plugin object has
\* no hook that runs then, so nothing of the debouncer changes
CloseServer ==
  /\ watching
  /\ ~closed
  /\ closed' = TRUE
  /\ trace' = Append(trace, Ev("close", NoKey, NoPath, 0, 0))
  /\ UNCHANGED <<packages, watchDir, verbose, input, output, urlToModuleMap, now,
                 timers, counts, armed, nextHandle, fsDirs, fsFiles, addThrows,
                 threw, peer, watched, watching>>

\* a timeout that is due runs
Expire ==
  /\ \E t \in armed :
       /\ t.due <= now
       /\ armed' = armed \ {t}
       /\ timerCallback(t)
  /\ UNCHANGED <<packages, watchDir, verbose, input, output, now, nextHandle,
                 fsDirs,
                 fsFiles, addThrows, threw, closed, watched, watching>>

\* a timeout that is due runs and the host's invalidateModule throws in it
ExpireThrows ==
  /\ \E t \in armed :
       /\ t.due <= now
       /\ armed' = armed \ {t}
       /\ \E k \in DOMAIN urlToModuleMap \cup DOMAIN peer.urlToModuleMap :
            timerCallbackThrows(t, k)
  /\ UNCHANGED <<packages, watchDir, verbose, input, output, now, nextHandle,
                 fsDirs, fsFiles, addThrows, threw, closed, watched, watching>>

\* time passes; a timeout runs when it is due, before the clock moves on
Tick ==
  /\ now < MaxTime
  /\ \A t \in armed : t.due > now
  /\ now' = now + 1
  /\ UNCHANGED <<packages, watchDir, verbose, input, output, urlToModuleMap,
                 timers, counts, armed, nextHandle, fsDirs,
                 fsFiles, addThrows, threw, closed, peer, watched, watching, trace>>

----------------------------------------------------------------------------
(* The session: two linked packages, one module graph *)

LinkedPackages ==
  << [name |-> <<"a">>, path |-> <<"/", "a">>],
     [name |-> <<"b">>, path |-> <<"/", "b">>] >>

DefaultWatchDir == <<"d">>

\* one module of package a known by its file, one known by its url, and
\* one module that belongs to no linked package
InitialModules ==
  << [url |-> <<"/", "x">>, file |-> {<<"/", "a", "/", "d", "/", "m">>}, invalidated |-> 0],
     [url |-> <<"/", "n", "/", "a">>, file |-> {}, invalidated |-> 0],
     [url |-> <<"/", "y">>, file |-> {<<"/", "y">>}, invalidated |-> 0] >>

\* the second server before configureServer is given it
NoPeer == [watching |-> FALSE, threw |-> FALSE, watched |-> {}, urlToModuleMap |-> InitialModules]

NoInput == [filePath |-> <<>>, pkgName |-> <<>>, pkgPath |-> <<>>]
NoOutput == [called |-> "none", pkg |-> undefined, count |-> 0]

Init ==
  /\ packages = LinkedPackages
  /\ watchDir = DefaultWatchDir
  /\ verbose \in BOOLEAN
  /\ input = NoInput
  /\ output = NoOutput
  /\ urlToModuleMap = InitialModules
  /\ now = 0
  /\ timers = <<>>
  /\ counts = <<>>
  /\ armed = {}
  /\ nextHandle = 1
  /\ fsDirs = {join(LinkedPackages[i].path, DefaultWatchDir) : i \in DOMAIN LinkedPackages}
  /\ fsFiles = {}
  /\ addThrows = {}
  /\ threw = FALSE
  /\ closed = FALSE
  /\ peer = NoPeer
  /\ watched = {}
  /\ watching = FALSE
  /\ trace = <<>>

Next == ConfigureServer \/ Change \/ Expire \/ Tick

Spec == Init /\ [][Next]_vars

\* a change event early enough for its timeout to be due within MaxTime
ChangeInTime ==
  /\ now + debounce <= MaxTime
  /\ Change

NextLive == ConfigureServer \/ ChangeInTime \/ Expire \/ Tick

\* the runtime runs a timeout that is due, and time passes
SpecLive == Init /\ [][NextLive]_vars /\ WF_vars(Expire) /\ WF_vars(Tick)

\* the host's purge may fail while the process goes on
NextFailing == Next \/ ExpireThrows

SpecFailing == Init /\ [][NextFailing]_vars

\* the server is closed while the process goes on
NextTeardown == Next \/ CloseServer

SpecTeardown == Init /\ [][NextTeardown]_vars

\* the same plugin object given two servers
NextSessions == Next \/ ConfigurePeer \/ ChangePeer

SpecSessions == Init /\ [][NextSessions]_vars

----------------------------------------------------------------------------
(* Cycles over drawn registries of two packages, each with one module *)

CycleNames == { <<"a">>, <<"b">>, <<"a", "b">> }

CycleRoots == { <<Sep, "a">>, <<Sep, "b">>, <<Sep, "a", "b">> }

\* the module of a package: served under its name, built into its watch target
moduleOf(pkg) ==
  [url |-> <<Sep>> \o pkg.name \o <<Sep, "m">>,
   file |-> {join(pkg.path, DefaultWatchDir) \o <<Sep, "m">>},
   invalidated |-> 0]

CycleInit ==
  /\ \E nameA \in CycleNames : \E nameB \in CycleNames \ {nameA} :
       \E rootA \in CycleRoots : \E rootB \in CycleRoots \ {rootA} :
         packages = << [name |-> nameA, path |-> rootA], [name |-> nameB, path |-> rootB] >>
  /\ watchDir = DefaultWatchDir
  /\ verbose = FALSE
  /\ input = NoInput
  /\ output = NoOutput
  /\ urlToModuleMap = [i \in DOMAIN packages |-> moduleOf(packages[i])]
  /\ now = 0
  /\ timers = <<>>
  /\ counts = <<>>
  /\ armed = {}
  /\ nextHandle = 1
  /\ fsDirs = {join(packages[i].path, watchDir) : i \in DOMAIN packages}
  /\ fsFiles = {}
  /\ addThrows = {}
  /\ threw = FALSE
  /\ closed = FALSE
  /\ peer = NoPeer
  /\ watched = {}
  /\ watching = FALSE
  /\ trace = <<>>

\* the watcher delivers a change event for the file m of a watch target
ChangeInTarget ==
  /\ watching
  /\ NumChanges < MaxChanges
  /\ \E i \in DOMAIN packages :
       onChange(1, join(packages[i].path, watchDir) \o <<Sep, "m">>)
  /\ UNCHANGED <<packages, watchDir, verbose, input, output, urlToModuleMap, now,
                 fsDirs, fsFiles, addThrows, threw, closed, peer, watched, watching>>

NextCycle == ConfigureServer \/ ChangeInTarget \/ Expire \/ Tick

SpecCycle == CycleInit /\ [][NextCycle]_vars

----------------------------------------------------------------------------
(* getPackageForPath called directly, on drawn arguments *)

\* absolute paths up to a length
AbsPaths(n) == {s \in Strs(PathChars, n) : s # <<>> /\ s[1] = Sep}

RegistryNames == << <<"a">>, <<"b">> >>

\* the registries of one package and of two, with drawn roots
Registries ==
  UNION {[1..k -> AbsPaths(MaxRootLen)] : k \in DOMAIN RegistryNames}

WatchDirs == { <<"d">>, <<"d", Sep>> }

ResolveInit ==
  /\ \E roots \in Registries :
       packages = [i \in DOMAIN roots |-> [name |-> RegistryNames[i], path |-> roots[i]]]
  /\ watchDir \in WatchDirs
  /\ verbose = FALSE
  /\ \E fp \in AbsPaths(MaxPathLen) : input = [NoInput EXCEPT !.filePath = fp]
  /\ output = NoOutput
  /\ urlToModuleMap = <<>>
  /\ now = 0
  /\ timers = <<>>
  /\ counts = <<>>
  /\ armed = {}
  /\ nextHandle = 1
  /\ fsDirs = {}
  /\ fsFiles = {}
  /\ addThrows = {}
  /\ threw = FALSE
  /\ closed = FALSE
  /\ peer = NoPeer
  /\ watched = {}
  /\ watching = FALSE
  /\ trace = <<>>

CallGetPackageForPath ==
  /\ output.called = "none"
  /\ output' = [NoOutput EXCEPT !.called = "getPackageForPath",
                                !.pkg = getPackageForPath(input.filePath, packages, watchDir)]
  /\ UNCHANGED <<packages, watchDir, verbose, input, urlToModuleMap, now, timers,
                 counts, armed, nextHandle, fsDirs,
                 fsFiles, addThrows, threw, closed, peer, watched, watching, trace>>

SpecResolve == ResolveInit /\ [][CallGetPackageForPath]_vars

----------------------------------------------------------------------------
(* Startup: configureServer over drawn registries, disks and watchers *)

DiskKinds == {"none", "dir", "file"}

StartupInit ==
  /\ \E roots \in Registries :
       packages = [i \in DOMAIN roots |-> [name |-> RegistryNames[i], path |-> roots[i]]]
  /\ watchDir \in WatchDirs
  /\ verbose \in BOOLEAN
  /\ \E kind \in [{bare(join(packages[i].path, watchDir)) : i \in DOMAIN packages} -> DiskKinds] :
       /\ fsDirs = {t \in DOMAIN kind : kind[t] = "dir"}
       /\ fsFiles = {t \in DOMAIN kind : kind[t] = "file"}
  /\ addThrows \in SUBSET {join(packages[i].path, watchDir) : i \in DOMAIN packages}
  /\ input = NoInput
  /\ output = NoOutput
  /\ urlToModuleMap = <<>>
  /\ now = 0
  /\ timers = <<>>
  /\ counts = <<>>
  /\ armed = {}
  /\ nextHandle = 1
  /\ threw = FALSE
  /\ closed = FALSE
  /\ peer = NoPeer
  /\ watched = {}
  /\ watching = FALSE
  /\ trace = <<>>

SpecStartup == StartupInit /\ [][ConfigureServer]_vars

----------------------------------------------------------------------------
(* getSourceAliases over drawn registries, name lists and entry points *)

AliasRoots == { <<>>, <<Sep>>, <<Sep, "a">>, <<Sep, "a", Sep>> }

AliasRegistries == UNION {[1..k -> AliasRoots] : k \in 0..Len(RegistryNames)}

\* the names of the registry and one that is in no registry
AliasNames == {RegistryNames[i] : i \in DOMAIN RegistryNames} \cup { <<"c">> }

EntryPoints == { undefined, {<<>>}, {<<"m">>}, {<<"d", Sep, "m">>} }

AliasesInit ==
  /\ \E roots \in AliasRegistries :
       packages = [i \in DOMAIN roots |-> [name |-> RegistryNames[i], path |-> roots[i]]]
  /\ \E names \in UNION {[1..k -> AliasNames] : k \in 0..MaxAliasable} :
       \E entryPoint \in EntryPoints :
         input = [aliasablePackages |-> names, entryPoint |-> entryPoint]
  /\ output = NoOutput
  /\ watchDir = DefaultWatchDir
  /\ verbose = FALSE
  /\ urlToModuleMap = <<>>
  /\ now = 0
  /\ timers = <<>>
  /\ counts = <<>>
  /\ armed = {}
  /\ nextHandle = 1
  /\ fsDirs = {}
  /\ fsFiles = {}
  /\ addThrows = {}
  /\ threw = FALSE
  /\ closed = FALSE
  /\ peer = NoPeer
  /\ watched = {}
  /\ watching = FALSE
  /\ trace = <<>>

CallGetSourceAliases ==
  /\ output.called = "none"
  /\ output' = [called |-> "getSourceAliases",
                aliases |-> getSourceAliases(packages, input.aliasablePackages,
                                             input.entryPoint)]
  /\ UNCHANGED <<packages, watchDir, verbose, input, urlToModuleMap, now, timers,
                 counts, armed, nextHandle, fsDirs, fsFiles, addThrows, threw,
                 closed, peer, watched, watching, trace>>

SpecAliases == AliasesInit /\ [][CallGetSourceAliases]_vars

----------------------------------------------------------------------------
(* invalidatePackageModules called directly, on drawn arguments *)

NonEmpty(S) == S \ {<<>>}

\* the number of characters of a module's file path, 0 without a file
fileChars(file) == IF file = {} THEN 0 ELSE Len(CHOOSE f \in file : TRUE)

\* the modules with a url of at most u characters and no file or a file
\* path of at most f characters
DrawnModules(u, f) ==
  [url : Strs(NameChars, u),
   file : {{}} \cup {{p} : p \in Strs(NameChars, f)},
   invalidated : {0}]

\* the module graphs of k modules whose urls hold at most u characters in
\* all and whose file paths hold at most f
RECURSIVE GraphsOf(_, _, _)
GraphsOf(k, u, f) ==
  IF k = 0 THEN {<<>>}
  ELSE UNION {{<<m>> \o g : g \in GraphsOf(k - 1, u - Len(m.url), f - fileChars(m.file))} :
                m \in DrawnModules(u, f)}

\* module graphs: up to MaxModules modules, the urls of a Map distinct
DrawnGraphs ==
  {g \in UNION {GraphsOf(k, MaxUrlChars, MaxFileChars) : k \in 0..MaxModules} :
     \A i, j \in DOMAIN g : i # j => g[i].url # g[j].url}

InvalidateInit ==
  /\ packages = <<>>
  /\ watchDir = DefaultWatchDir
  /\ verbose = FALSE
  /\ \E name \in NonEmpty(Strs(NameChars, MaxNameLen)),
        root \in NonEmpty(Strs(NameChars, MaxRootChars)) :
       input = [NoInput EXCEPT !.pkgName = name, !.pkgPath = root]
  /\ output = NoOutput
  /\ urlToModuleMap \in DrawnGraphs
  /\ now = 0
  /\ timers = <<>>
  /\ counts = <<>>
  /\ armed = {}
  /\ nextHandle = 1
  /\ fsDirs = {}
  /\ fsFiles = {}
  /\ addThrows = {}
  /\ threw = FALSE
  /\ closed = FALSE
  /\ peer = NoPeer
  /\ watched = {}
  /\ watching = FALSE
  /\ trace = <<>>

CallInvalidatePackageModules ==
  /\ output.called = "none"
  /\ LET r == invalidatePackageModules(urlToModuleMap, input.pkgName, input.pkgPath)
     IN  /\ urlToModuleMap' = r.map
         /\ output' = [NoOutput EXCEPT !.called = "invalidatePackageModules",
                                       !.count = r.count]
  /\ UNCHANGED <<packages, watchDir, verbose, input, now, timers, counts, armed,
                 nextHandle, fsDirs,
                 fsFiles, addThrows, threw, closed, peer, watched, watching, trace>>

SpecInvalidate == InvalidateInit /\ [][CallInvalidatePackageModules]_vars

----------------------------------------------------------------------------
(* What the claims are stated in *)

\* sub occurs in s: s is some string, then sub, then some string
Contains(s, sub) ==
  \E a \in 0..Len(s) : \E b \in a..Len(s) : SubSeq(s, a + 1, b) = sub

\* the directory dir, with its trailing separator
AsDir(dir) == IF dir # <<>> /\ dir[Len(dir)] = Sep THEN dir ELSE Append(dir, Sep)

\* path is the directory dir or lies in it, by path components
Within(dir, path) == startsWith(Append(path, Sep), AsDir(dir))

\* the watch target of registry entry i
Target(i) == join(packages[i].path, watchDir)

Keys == {packages[i].name : i \in DOMAIN packages}

Calls(K) == {i \in DOMAIN trace : trace[i].ev = "call" /\ trace[i].key = K}
Fires(K) == {i \in DOMAIN trace : trace[i].ev = "fire" /\ trace[i].key = K}

\* i and j are consecutive members of the set S of positions
Consecutive(S, i, j) == i \in S /\ j \in S /\ i < j /\ ~\E k \in S : i < k /\ k < j

\* the positions p..q of S are one burst: every gap inside it is shorter
\* than the delay, and it is more than the delay away from what is before
\* and after it
IsBurst(S, p, q) ==
  /\ p \in S /\ q \in S /\ p <= q
  /\ \A i \in S : i < p => trace[p].at - trace[i].at > debounce
  /\ \A j \in S : j > q => trace[j].at - trace[q].at > debounce
  /\ \A i, j \in S : p <= i /\ j <= q /\ Consecutive(S, i, j)
                      => trace[j].at - trace[i].at < debounce

\* the fires for key K that answer the burst p..q of S: those after its
\* start and before whatever of S comes after it
FiresOf(K, S, p, q) ==
  {f \in Fires(K) : p < f /\ \A j \in S : j > q => f < j}

\* the burst p..q of S is over: something of S came after it, or more than
\* the delay has passed since its last member
Settled(S, q) ==
  \/ \E j \in S : j > q
  \/ now > trace[q].at + debounce

----------------------------------------------------------------------------
(* C5 (the code does not have it).  Prefix boundary: a path that is the    *)
(* watch target R/D of a registered package followed by a non-empty suffix *)
(* that does not start with a separator does not resolve to that package.  *)
PrefixBoundary ==
  output.called = "getPackageForPath" =>
    \A i \in DOMAIN packages :
      LET target == Target(i)
          fp == input.filePath
      IN  ( /\ target[Len(target)] # Sep
            /\ startsWith(fp, target)
            /\ Len(fp) > Len(target)
            /\ fp[Len(target) + 1] # Sep )
          => [name |-> packages[i].name, path |-> packages[i].path] \notin output.pkg

(* C6 (the code does not have it).  Resolution correctness: when no watch  *)
(* target of the registry lies within another, every path R/D/... resolves *)
(* to the package of R, and every path that lies within no watch target    *)
(* resolves to undefined.                                                  *)
NoOverlap ==
  \A i, j \in DOMAIN packages : i # j => ~Within(Target(i), Target(j))

ResolutionCorrectness ==
  (output.called = "getPackageForPath" /\ NoOverlap) =>
    LET fp == input.filePath
    IN  /\ \A i \in DOMAIN packages :
             (Within(Target(i), fp) /\ Len(fp) > Len(Target(i)))
             => output.pkg = {[name |-> packages[i].name, path |-> packages[i].path]}
        /\ (\A i \in DOMAIN packages : ~Within(Target(i), fp))
             => output.pkg = undefined

(* C7.  Invalidation matching: a pass invalidates exactly the modules      *)
(* whose url contains the package name or whose file path, when there is   *)
(* one, contains the package root, each once; it leaves every other module *)
(* as it was; and it returns the number of invalidateModule calls made.    *)
Matches(mod, name, root) ==
  Contains(mod.url, name) \/ \E f \in mod.file : Contains(f, root)

----------------------------------------------------------------------------
(* C1.  Debounce coalescing: the n calls of a burst for a key (every gap   *)
(* shorter than the delay) are answered by one fire, which is handed n and *)
(* runs when the delay has passed since the last call of the burst; no     *)
(* fire for the key runs earlier in the burst.                             *)
DebounceCoalescing ==
  \A K \in Keys : \A p, q \in Calls(K) :
    IsBurst(Calls(K), p, q) =>
      LET n == Cardinality({c \in Calls(K) : p <= c /\ c <= q})
          fires == FiresOf(K, Calls(K), p, q)
      IN  /\ \A f \in fires : /\ f > q
                              /\ trace[f].n = n
                              /\ trace[f].at = trace[q].at + debounce
          /\ Cardinality(fires) <= 1
          /\ Settled(Calls(K), q) => Cardinality(fires) = 1

\* a burst of three calls of one key, made at more than one instant, has fired
BurstOfThreeFired ==
  \E K \in Keys : \E p, q \in Calls(K) :
    /\ IsBurst(Calls(K), p, q)
    /\ trace[p].at < trace[q].at
    /\ \E f \in FiresOf(K, Calls(K), p, q) : trace[f].n = 3

(* C2.  At most one live timer for a key in every reachable state, the one *)
(* the timers map holds; and no two fires for a key without a call for it  *)
(* in between.                                                             *)
SingleTimerPerKey ==
  /\ \A t, u \in armed : t.key = u.key => t = u
  /\ \A t \in armed : t.key \in DOMAIN timers /\ timers[t.key] = t.handle
  /\ \A K \in Keys : \A f, g \in Fires(K) :
       f < g => \E c \in Calls(K) : f < c /\ c < g

\* a key's timer has been armed again: two calls counted, one live timer
TimerRearmed ==
  \E t \in armed : t.key \in DOMAIN counts /\ counts[t.key] >= 2 /\ t.handle >= 2

(* C4.  Re-arming resets the window: of two calls for a key at t1 and t2,  *)
(* t1 < t2 < t1 + delay, no fire for the key runs at t1 + delay nor        *)
(* between the calls; when these two calls are a whole burst, its one fire *)
(* runs at t2 + delay and is handed 2.                                     *)
RearmResetsWindow ==
  \A K \in Keys : \A p, q \in Calls(K) :
    ( /\ Consecutive(Calls(K), p, q)
      /\ trace[p].at < trace[q].at
      /\ trace[q].at < trace[p].at + debounce )
    => /\ \A f \in Fires(K) : trace[f].at # trace[p].at + debounce
       /\ \A f \in Fires(K) : ~(p < f /\ f < q)
       /\ IsBurst(Calls(K), p, q) =>
            LET fires == FiresOf(K, Calls(K), p, q)
            IN  /\ \A f \in fires : trace[f].n = 2 /\ trace[f].at = trace[q].at + debounce
                /\ Cardinality(fires) <= 1
                /\ Settled(Calls(K), q) => Cardinality(fires) = 1

\* two calls of a key one tick apart have been answered by one fire
RearmedBurstFired ==
  \E K \in Keys : \E p, q \in Calls(K) :
    /\ IsBurst(Calls(K), p, q)
    /\ Consecutive(Calls(K), p, q)
    /\ trace[q].at = trace[p].at + 1
    /\ \E f \in Fires(K) : f > q /\ trace[f].n = 2 /\ trace[f].at = trace[q].at + debounce

----------------------------------------------------------------------------
(* C3.  Debounce isolation: a call or a fire for key A leaves the live     *)
(* timer (its due time), the timer handle and the count of every other key *)
(* B as they were; every fire for a key is handed the number of calls made *)
(* for that key since its previous fire, and once no timer is live every   *)
(* call of a key has been answered by a fire for that key.                 *)
KeyState(K) ==
  [live |-> {t \in armed : t.key = K},
   count |-> IF K \in DOMAIN counts THEN {counts[K]} ELSE {},
   timer |-> IF K \in DOMAIN timers THEN {timers[K]} ELSE {}]

Appended == {trace'[i] : i \in (Len(trace) + 1)..Len(trace')}

IsolationStep ==
  \A A, B \in Keys :
    (A # B /\ \E e \in Appended : e.ev \in {"call", "fire"} /\ e.key = A)
    => KeyState(B)' = KeyState(B)

IsolationInv ==
  \A K \in Keys :
    /\ \A f \in Fires(K) :
         trace[f].n = Cardinality({c \in Calls(K) :
                         c < f /\ \A g \in Fires(K) : g < f => g < c})
    /\ armed = {} => \A c \in Calls(K) : \E f \in Fires(K) : c < f

DebounceIsolation == []IsolationInv /\ [][IsolationStep]_vars

\* a call of B came between two calls of one burst of A, and both keys
\* have been answered: A with 2, B with 1
InterleavedBurstsFired ==
  \E A, B \in Keys :
    /\ A # B
    /\ \E a1, a2 \in Calls(A), b1 \in Calls(B) :
         /\ a1 < b1 /\ b1 < a2
         /\ \E fa \in Fires(A), fb \in Fires(B) :
              /\ a2 < fa /\ b1 < fb
              /\ trace[fa].n = 2 /\ trace[fb].n = 1

----------------------------------------------------------------------------
(* C8 (the code does not have it).  End-to-end coalescing: the n change    *)
(* events of a burst for files in one package's watch target are answered  *)
(* by one fired cycle for that package, handed n; the cycle runs one       *)
(* invalidation pass for the package's name and root and then sends one    *)
(* full-reload.                                                            *)
ChangesUnder(i) ==
  {c \in DOMAIN trace : trace[c].ev = "change" /\ Within(Target(i), trace[c].path)}

\* position f starts one cycle for registry entry i: fire, one invalidation
\* pass for its name and root, the log line when verbose, one send
CycleAt(f, i) ==
  LET s == IF verbose THEN f + 3 ELSE f + 2
  IN  /\ s <= Len(trace)
      /\ trace[f + 1].ev = "invalidate"
      /\ trace[f + 1].key = packages[i].name
      /\ trace[f + 1].path = packages[i].path
      /\ verbose => trace[f + 2].ev = "log"
      /\ trace[s].ev = "send"
      /\ s < Len(trace) => trace[s + 1].ev \notin {"invalidate", "send"}

EndToEndCoalescing ==
  \A i \in DOMAIN packages : \A p, q \in ChangesUnder(i) :
    IsBurst(ChangesUnder(i), p, q) =>
      LET n == Cardinality({c \in ChangesUnder(i) : p <= c /\ c <= q})
          cycles == FiresOf(packages[i].name, ChangesUnder(i), p, q)
      IN  /\ \A f \in cycles : trace[f].n = n /\ CycleAt(f, i)
          /\ Cardinality(cycles) <= 1
          /\ Settled(ChangesUnder(i), q) => Cardinality(cycles) = 1

----------------------------------------------------------------------------
(* C9.  No-op on unowned paths: the step that handles a change event whose *)
(* path resolves to no package changes nothing of the debouncer, the       *)
(* module graph or the watcher, and sends and logs nothing; and nothing    *)
(* follows from it later: every call comes from a change event that        *)
(* resolved to its key, every fire answers a call, every invalidation,     *)
(* cycle log line and send belongs to a fire, and a session that has seen  *)
(* only unowned paths has done none of these.                              *)
Unowned(e) ==
  e.ev = "change" /\ getPackageForPath(e.path, packages, watchDir) = undefined

UnownedStep ==
  (Len(trace') > Len(trace) /\ Unowned(trace'[Len(trace) + 1]))
  => /\ Len(trace') = Len(trace) + 1
     /\ UNCHANGED <<timers, counts, armed, nextHandle, urlToModuleMap, watched, watching>>

UnownedInv ==
  /\ \A c \in DOMAIN trace : trace[c].ev = "call" =>
       /\ c > 1
       /\ trace[c - 1].ev = "change"
       /\ \E p \in getPackageForPath(trace[c - 1].path, packages, watchDir) :
            p.name = trace[c].key
  /\ \A f \in DOMAIN trace : trace[f].ev = "fire" =>
       \E c \in Calls(trace[f].key) : c < f
  /\ \A i \in DOMAIN trace :
       /\ trace[i].ev = "invalidate" => i > 1 /\ trace[i - 1].ev = "fire"
       /\ (trace[i].ev = "log" /\ trace[i].key # NoKey) =>
            i > 1 /\ trace[i - 1].ev = "invalidate"
       /\ trace[i].ev = "send" =>
            i > 1 /\ trace[i - 1].ev = (IF verbose THEN "log" ELSE "invalidate")
                  /\ trace[i - 1].key # NoKey
  /\ (\A c \in DOMAIN trace : trace[c].ev = "change" => Unowned(trace[c]))
     => /\ \A i \in DOMAIN trace : trace[i].ev \notin {"call", "fire", "invalidate", "send"}
        /\ \A i \in DOMAIN trace : trace[i].ev = "log" => trace[i].key = NoKey
        /\ timers = <<>> /\ counts = <<>> /\ armed = {}
        /\ urlToModuleMap = InitialModules

UnownedPathNoOp == []UnownedInv /\ [][UnownedStep]_vars

\* only unowned paths have changed, and more than the delay has passed
\* since the first of them
UnownedChangeIgnored ==
  /\ \E c \in DOMAIN trace : Unowned(trace[c]) /\ now > trace[c].at + debounce
  /\ \A c \in DOMAIN trace : trace[c].ev = "change" => Unowned(trace[c])

----------------------------------------------------------------------------
(* C10.  A cycle whose invalidation pass matches no module is no error:    *)
(* the pass returns the number of matching modules, 0 when there are none, *)
(* and every pass is followed by one send whatever it returned; there are  *)
(* as many sends as fires.                                                 *)
ZeroMatchStillReloads ==
  /\ \A i \in DOMAIN trace : trace[i].ev = "invalidate" =>
       LET hit == {m \in DOMAIN urlToModuleMap :
                     Matches(urlToModuleMap[m], trace[i].key, trace[i].path)}
           s == IF verbose THEN i + 2 ELSE i + 1
       IN  /\ trace[i].n = Cardinality(hit)
           /\ s <= Len(trace)
           /\ trace[s].ev = "send"
  /\ Cardinality({i \in DOMAIN trace : trace[i].ev = "send"})
       = Cardinality({i \in DOMAIN trace : trace[i].ev = "fire"})
  /\ Cardinality({i \in DOMAIN trace : trace[i].ev = "invalidate"})
       = Cardinality({i \in DOMAIN trace : trace[i].ev = "fire"})

\* a pass that matched no module has been followed by a send
ZeroMatchCycleReloaded ==
  \E i \in DOMAIN trace :
    /\ trace[i].ev = "invalidate"
    /\ trace[i].n = 0
    /\ \A m \in DOMAIN urlToModuleMap : urlToModuleMap[m].invalidated = 0
    /\ trace[IF verbose THEN i + 2 ELSE i + 1].ev = "send"

----------------------------------------------------------------------------
(* C14.  Count conservation: for every key, the counts handed to the fired *)
(* callbacks so far plus the count still accumulated for the key add up to *)
(* the number of calls made for the key, and every fired count is at least *)
(* 1: no call is dropped and none is counted twice.                        *)
RECURSIVE FiredSum(_)
FiredSum(F) ==
  IF F = {} THEN 0
  ELSE LET f == CHOOSE x \in F : TRUE IN trace[f].n + FiredSum(F \ {f})

Accumulated(K) == IF K \in DOMAIN counts THEN counts[K] ELSE 0

CountConservation ==
  /\ \A K \in Keys : FiredSum(Fires(K)) + Accumulated(K) = Cardinality(Calls(K))
  /\ \A i \in DOMAIN trace : trace[i].ev = "fire" => trace[i].n >= 1

\* a key has fired with a count of 2 and has a further call accumulated
FiredAndAccumulating ==
  \E K \in Keys :
    /\ \E f \in Fires(K) : trace[f].n = 2
    /\ Accumulated(K) = 1

----------------------------------------------------------------------------
(* C15.  Fresh start after a fire: the step that fires a key leaves it     *)
(* with no count, no timer handle and no armed timeout; the first call     *)
(* after a fire of the key, when no other call of the key follows it       *)
(* before the next fire, is fired one delay after it with a count of 1,    *)
(* and is fired once that delay has passed.                                *)
FiredStep(K) ==
  /\ Len(trace') > Len(trace)
  /\ trace'[Len(trace) + 1].ev = "fire"
  /\ trace'[Len(trace) + 1].key = K

FreshStep ==
  \A K \in Keys : FiredStep(K) =>
    /\ K \notin DOMAIN counts'
    /\ K \notin DOMAIN timers'
    /\ \A t \in armed' : t.key # K

\* c is the first call of K after the fire f of K
FirstCallAfter(K, f, c) ==
  /\ f \in Fires(K)
  /\ c \in Calls(K)
  /\ f < c
  /\ \A d \in Calls(K) : ~(f < d /\ d < c)

FreshInv ==
  \A K \in Keys : \A f \in Fires(K) : \A c \in Calls(K) :
    FirstCallAfter(K, f, c) =>
      /\ \A g \in Fires(K) :
           (c < g /\ \A d \in Calls(K) : ~(c < d /\ d < g)) =>
             /\ trace[g].n = 1
             /\ trace[g].at = trace[c].at + debounce
      /\ (now > trace[c].at + debounce /\ \A d \in Calls(K) : d <= c) =>
           \E g \in Fires(K) : c < g

FreshStartAfterFire == []FreshInv /\ [][FreshStep]_vars

\* a key fired a burst of two, was called once more and fired a count of 1
SecondCycleCountedOne ==
  \E K \in Keys : \E f \in Fires(K) : \E c \in Calls(K) : \E g \in Fires(K) :
    /\ trace[f].n = 2
    /\ FirstCallAfter(K, f, c)
    /\ c < g
    /\ trace[g].n = 1

----------------------------------------------------------------------------
(* C17.  First match wins: when the watch targets of several registry      *)
(* entries are prefixes of the path, the resolver returns the first such   *)
(* entry in registry order and only that one; it returns at most one       *)
(* package, and none when no target is a prefix.                           *)
IsPrefix(t, p) == \E k \in 0..Len(p) : SubSeq(p, 1, k) = t

PrefixEntries ==
  {i \in DOMAIN packages : IsPrefix(join(packages[i].path, watchDir), input.filePath)}

FirstMatchWins ==
  output.called = "getPackageForPath" =>
    /\ Cardinality(output.pkg) <= 1
    /\ PrefixEntries = {} => output.pkg = undefined
    /\ PrefixEntries # {} =>
         LET i == CHOOSE x \in PrefixEntries : \A y \in PrefixEntries : x <= y
         IN  output.pkg = {[name |-> packages[i].name, path |-> packages[i].path]}

\* two entries with different roots both match and the first was returned
OverlapResolvedToFirst ==
  /\ output.called = "getPackageForPath"
  /\ {1, 2} \subseteq PrefixEntries
  /\ packages[1].path # packages[2].path
  /\ output.pkg = {[name |-> packages[1].name, path |-> packages[1].path]}

----------------------------------------------------------------------------
(* C20.  No stranded triggers: the keys with a timer handle are the keys   *)
(* with a counter; a key has an accumulated count above 0 exactly when the *)
(* timeout its handle names is armed, and no timeout is armed that no      *)
(* handle names.                                                           *)
Live(K) == \E t \in armed : t.key = K /\ K \in DOMAIN timers /\ t.handle = timers[K]

NoStrandedTriggers ==
  /\ DOMAIN timers = DOMAIN counts
  /\ \A K \in Keys : (Accumulated(K) > 0) <=> Live(K)
  /\ \A t \in armed : Live(t.key) /\ t.handle = timers[t.key]
  /\ DOMAIN counts \subseteq Keys

\* one key has fired and is idle while the other has a count and a timer
OneIdleOnePending ==
  \E K \in Keys : \E J \in Keys :
    /\ Fires(K) # {}
    /\ K \notin DOMAIN counts
    /\ Accumulated(J) > 0
    /\ Live(J)

----------------------------------------------------------------------------
(* C11.  Registration at startup: once configureServer has returned, every *)
(* watch target (root joined with watchDir) that is a directory on disk    *)
(* has been given to the watcher; a target that is not on disk is never    *)
(* given to it and raises no error (configureServer throws only when the   *)
(* watcher does, for a target that is on disk); no path other than a       *)
(* watch target is ever given to the watcher.                              *)
Targets == {join(packages[i].path, watchDir) : i \in DOMAIN packages}

IsDirectory(t) == bare(t) \in fsDirs

Missing(t) == bare(t) \notin fsDirs \cup fsFiles

RegistrationAtStartup ==
  /\ watched \subseteq Targets
  /\ \A t \in Targets : Missing(t) => t \notin watched
  /\ watching => \A t \in Targets : IsDirectory(t) => t \in watched
  /\ threw => \E t \in Targets : ~Missing(t) /\ t \in addThrows
  /\ (watching \/ threw) => (threw <=> \E t \in Targets : existsSync(t) /\ t \in addThrows)

\* of two targets the one on disk was registered and the missing one not
OneOfTwoRegistered ==
  /\ watching
  /\ \E t \in Targets : \E u \in Targets :
       /\ IsDirectory(t) /\ t \in watched
       /\ Missing(u) /\ u \notin watched
       /\ u \in addThrows

----------------------------------------------------------------------------
(* C18.  Host failures are propagated: when server.watcher.add throws for  *)
(* a target during startup, the exception leaves configureServer: the      *)
(* targets after it are not registered, the startup log is not written,    *)
(* the change listener is not subscribed, and the add is not tried again.  *)
Throwing == {i \in DOMAIN packages : LET t == join(packages[i].path, watchDir)
                                     IN  existsSync(t) /\ t \in addThrows}

HostFailurePropagates ==
  (Throwing # {} /\ (watching \/ threw)) =>
    LET first == CHOOSE i \in Throwing : \A j \in Throwing : i <= j
    IN  /\ threw
        /\ ~watching
        /\ trace = <<>>
        /\ watched = {join(packages[j].path, watchDir) : j \in
                        {k \in 1..(first - 1) : existsSync(join(packages[k].path, watchDir))}}
        /\ watched \cap addThrows = {}
        /\ ~ENABLED ConfigureServer

\* the first target was registered and the add of the second threw
SecondAddThrew ==
  /\ threw
  /\ Len(packages) = 2
  /\ watched = {join(packages[1].path, watchDir)}
  /\ join(packages[2].path, watchDir) \in addThrows
  /\ verbose

----------------------------------------------------------------------------
(* C13.  Alias generation: getSourceAliases maps exactly the listed names  *)
(* that have a non-empty root in the registry, each to its root joined     *)
(* with "src" and the entry point ("index.ts" when none is given); listed  *)
(* names absent from the registry and unlisted registry names are left     *)
(* out; the result is determined by the arguments, and the call leaves     *)
(* the registry and the list as they were.                                 *)
Listed == {input.aliasablePackages[i] : i \in DOMAIN input.aliasablePackages}

RootsOf(n) == {packages[i].path : i \in {j \in DOMAIN packages : packages[j].name = n}}

Aliasable == {n \in Listed : RootsOf(n) # {} /\ RootsOf(n) # {<<>>}}

EntryPointGiven ==
  IF input.entryPoint = {} THEN DefaultEntryPoint ELSE CHOOSE e \in input.entryPoint : TRUE

\* root/src/entryPoint as a path: separators between the parts, none doubled
SourcePath(root, entryPoint) ==
  normalize(root \o <<Sep>> \o src
            \o (IF entryPoint = <<>> THEN <<>> ELSE <<Sep>> \o entryPoint))

AliasInv ==
  output.called = "getSourceAliases" =>
    /\ DOMAIN output.aliases = Aliasable
    /\ \A n \in Aliasable : \A root \in RootsOf(n) :
         output.aliases[n] = SourcePath(root, EntryPointGiven)

AliasStep == (output' # output) => (packages' = packages /\ input' = input)

----------------------------------------------------------------------------
(* C12.  Teardown: once the host has closed the server no timeout of one   *)
(* of its listeners is left armed, and nothing that follows the close in   *)
(* the history is a fire, an invalidation pass, a cycle log or a send on   *)
(* that server.                                                            *)
TeardownCancelsTimers ==
  /\ closed => \A t \in armed : t.fn.server # 1
  /\ \A i \in DOMAIN trace : \A j \in DOMAIN trace :
       (trace[i].ev = "close" /\ i < j /\ trace[j].srv = 1)
         => trace[j].ev \notin {"fire", "invalidate", "log", "send"}

----------------------------------------------------------------------------
(* C19.  Per-session coalescer state: a change event on one server leaves  *)
(* the armed timeouts of the other server's listener as they are, every    *)
(* fire on a server is handed the number of calls its own listener made    *)
(* for the key since the key last fired on that server, and when no        *)
(* timeout is armed every call of a listener has been followed by a fire   *)
(* on its server.                                                          *)
Servers == {1, 2}

CallsOn(s, K) == {i \in Calls(K) : trace[i].srv = s}

FiresOn(s, K) == {i \in Fires(K) : trace[i].srv = s}

SessionStep ==
  \A s \in Servers :
    ( /\ Len(trace') > Len(trace)
      /\ trace'[Len(trace) + 1].ev = "change"
      /\ trace'[Len(trace) + 1].srv = s )
    => \A t \in armed : t.fn.server # s => t \in armed'

SessionInv ==
  \A s \in Servers : \A K \in Keys :
    /\ \A f \in FiresOn(s, K) :
         trace[f].n = Cardinality({c \in CallsOn(s, K) :
                         /\ c < f
                         /\ \A g \in FiresOn(s, K) : ~(c < g /\ g < f)})
    /\ armed = {} => \A c \in CallsOn(s, K) : \E f \in FiresOn(s, K) : c < f

PerSessionCoalescer == []SessionInv /\ [][SessionStep]_vars

----------------------------------------------------------------------------
(* C16.  Liveness under quiescence: when timeouts that are due are run and *)
(* the change events are finitely many, every change event resolved to a   *)
(* package is eventually followed by a fire of that package's key and the  *)
(* send of that cycle. A further call for the key while its timeout is     *)
(* pending puts the fire off: after it the key's one timeout is due a      *)
(* whole delay later.                                                      *)
KeyNames == {RegistryNames[i] : i \in DOMAIN RegistryNames}

\* the call c of K has been followed by a fire of K and that cycle's send
Answered(K, c) ==
  \E f \in Fires(K) : \E x \in DOMAIN trace :
    /\ c < f
    /\ f < x
    /\ trace[x].ev = "send"
    /\ \A g \in DOMAIN trace : (f < g /\ g < x) => trace[g].ev # "fire"

Unanswered(K) == \E c \in Calls(K) : ~Answered(K, c)

PostponeStep ==
  \A K \in KeyNames :
    ( /\ Len(trace') > Len(trace)
      /\ trace'[Len(trace')].ev = "call"
      /\ trace'[Len(trace')].key = K )
    => /\ \E t \in armed' : t.key = K /\ t.due = now + debounce
       /\ \A t \in armed' : t.key = K => t.due = now + debounce

LivenessUnderQuiescence ==
  /\ \A K \in KeyNames : Unanswered(K) ~> ~Unanswered(K)
  /\ [][PostponeStep]_vars

\* a change event whose fire was put off by a later one has been answered
PostponedThenReloaded ==
  \E K \in KeyNames : \E c \in Calls(K) : \E d \in Calls(K) :
    /\ c < d
    /\ trace[d].at > trace[c].at
    /\ trace[d].at < trace[c].at + debounce
    /\ Answered(K, c)
    /\ \A f \in Fires(K) : trace[f].at >= trace[d].at + debounce

----------------------------------------------------------------------------
(* C23.  Last callback wins: every fire of a key runs the callback passed  *)
(* to the most recent call of the key, no callback is run twice, and the   *)
(* callback of a call that was followed by another call of the key before  *)
(* the key fired is never run.                                             *)
Superseded(K, c) ==
  \E d \in Calls(K) : c < d /\ \A f \in Fires(K) : ~(c < f /\ f < d)

Ran(id) == {f \in DOMAIN trace : trace[f].ev = "fire" /\ trace[f].m = id}

LastCallbackWins ==
  \A K \in Keys :
    /\ \A f \in Fires(K) :
         LET before == {c \in Calls(K) : c < f}
         IN  /\ before # {}
             /\ \E last \in before :
                  /\ \A c \in before : c <= last
                  /\ trace[f].m = trace[last].m
             /\ Ran(trace[f].m) = {f}
    /\ \A c \in Calls(K) : Superseded(K, c) => Ran(trace[c].m) = {}

\* a burst of three calls has fired: the third callback ran, the first two not
ThirdCallbackRan ==
  \E K \in Keys : \E a \in Calls(K) : \E b \in Calls(K) : \E c \in Calls(K) :
    /\ a < b /\ b < c
    /\ trace[a].at < trace[c].at
    /\ Ran(trace[c].m) # {}
    /\ Ran(trace[a].m) = {}
    /\ Ran(trace[b].m) = {}
    /\ \A f \in Ran(trace[c].m) : trace[f].n = 3

----------------------------------------------------------------------------
(* C21.  Cross-package isolation of invalidation: a cycle fired for one    *)
(* package changes only modules that belong to it, and leaves as they are  *)
(* the modules that belong to the other package (url under that package's  *)
(* name, file under that package's root), whatever the names and roots.    *)
UrlUnder(url, name) == Contains(url, <<Sep>> \o name \o <<Sep>>)

Belongs(mod, pkg) ==
  /\ UrlUnder(mod.url, pkg.name)
  /\ \A f \in mod.file : Within(pkg.path, f)

CrossPackageStep ==
  \A a \in DOMAIN packages : \A b \in DOMAIN packages :
    (a # b /\ FiredStep(packages[a].name)) =>
      \A i \in DOMAIN urlToModuleMap :
        /\ Belongs(urlToModuleMap[i], packages[b]) => urlToModuleMap'[i] = urlToModuleMap[i]
        /\ urlToModuleMap'[i] # urlToModuleMap[i] => Belongs(urlToModuleMap[i], packages[a])

CrossPackageIsolation == [][CrossPackageStep]_vars

----------------------------------------------------------------------------
(* C22.  A failing cycle does not wedge the coalescer: the step in which   *)
(* the closure of a key throws leaves the key with no count, no timer      *)
(* handle and no armed timeout, and appends no log and no send; every      *)
(* fire of a key, after a throw as after a return, is handed the number of *)
(* calls of the key since its previous fire, so the first call after a     *)
(* failed cycle, when alone, fires one delay later with a count of 1.      *)
Throws(K) == {i \in DOMAIN trace : trace[i].ev = "throw" /\ trace[i].key = K}

ThrewStep(K) ==
  /\ Len(trace') > Len(trace)
  /\ trace'[Len(trace')].ev = "throw"
  /\ trace'[Len(trace')].key = K

FailedStep ==
  \A K \in Keys : ThrewStep(K) =>
    /\ K \notin DOMAIN counts'
    /\ K \notin DOMAIN timers'
    /\ \A t \in armed' : t.key # K
    /\ Len(trace') = Len(trace) + 2
    /\ trace'[Len(trace) + 1].ev = "fire"
    /\ \A J \in Keys \ {K} :
         /\ (J \in DOMAIN counts) = (J \in DOMAIN counts')
         /\ J \in DOMAIN counts => counts'[J] = counts[J] /\ timers'[J] = timers[J]

FailedInv ==
  /\ \A K \in Keys : \A f \in Fires(K) :
       trace[f].n = Cardinality({c \in Calls(K) :
                        c < f /\ \A g \in Fires(K) : ~(c < g /\ g < f)})
  /\ \A K \in Keys : \A x \in Throws(K) : \A c \in Calls(K) :
       (x < c /\ \A d \in Calls(K) : ~(x < d /\ d < c)) =>
         /\ \A g \in Fires(K) :
              (c < g /\ \A d \in Calls(K) : ~(c < d /\ d < g)) =>
                /\ trace[g].n = 1
                /\ trace[g].at = trace[c].at + debounce
         /\ (now > trace[c].at + debounce /\ \A d \in Calls(K) : d <= c) =>
              \E g \in Fires(K) : c < g
  /\ Cardinality({i \in DOMAIN trace : trace[i].ev = "send"})
       + Cardinality({i \in DOMAIN trace : trace[i].ev = "throw"})
       = Cardinality({i \in DOMAIN trace : trace[i].ev = "fire"})

FailingCycleNoWedge == []FailedInv /\ [][FailedStep]_vars

\* a cycle of a key threw, the key was called again and fired a count of 1,
\* and that cycle sent its reload
FiredAgainAfterThrow ==
  \E K \in Keys : \E x \in Throws(K) : \E c \in Calls(K) : \E g \in Fires(K) :
    /\ x < c
    /\ c < g
    /\ trace[g].n = 1
    /\ g < Len(trace)
    /\ trace[Len(trace)].ev = "send"
    /\ Cardinality(Throws(K)) = 1

====
